---- MODULE Spec2Model ----
(***************************************************************************)
(* Model of the concurrent OneNote fetch pipeline of pkg/msgraph:          *)
(* GetOneNoteDataAsJSON -> combineOneNoteData ->                           *)
(* fetchOneNoteRawDataConcurrentWithConfig with its two worker pools       *)
(* (sectionWorker, contentWorker).  The Graph API is the environment: the  *)
(* response of every call is chosen when the call completes.               *)
(***************************************************************************)
EXTENDS Integers, Sequences, FiniteSets, TLC

(***************************************************************************)
(* Bounds of the model                                                     *)
(***************************************************************************)
\* largest configured worker count that is tried (counts range over -1..MaxWorkers)
MaxWorkers == 2
\* longest flat section list the section-list call returns
MaxSections == 2
\* most pages the list-pages calls of one run return in total
MaxPages == 2

(***************************************************************************)
(* Values                                                                  *)
(***************************************************************************)
AuthTypeApplication == "AuthTypeApplication"
AuthTypeDelegated == "AuthTypeDelegated"

\* section.GetParentNotebook() == nil
NoParent == "<nil>"

WorkerCounts == (0 - 1)..MaxWorkers
WorkerIds == 1..MaxWorkers

\* Notebook handles the notebook-list call can return
NotebookA == [id |-> "n1", displayName |-> "A"]
NotebookB == [id |-> "n2", displayName |-> "B"]

\* Responses of Notebooks().Get: an error, a nil collection, or a list
NotebookResponses ==
    { [err |-> TRUE, isNil |-> FALSE, value |-> << >>],
      [err |-> FALSE, isNil |-> TRUE, value |-> << >>],
      [err |-> FALSE, isNil |-> FALSE, value |-> << >>],
      [err |-> FALSE, isNil |-> FALSE, value |-> <<NotebookA>>],
      [err |-> FALSE, isNil |-> FALSE, value |-> <<NotebookA, NotebookB>>] }

\* The i-th section of the flat section list: it has its own id or none, and
\* a parent notebook reference that is missing, empty, or a notebook id
SectionsAt(i) ==
    LET sid == "s" \o ToString(i)
        nm == "S" \o ToString(i)
    IN { [id |-> sid, displayName |-> nm, parent |-> "n1"],
         [id |-> sid, displayName |-> nm, parent |-> "n2"],
         [id |-> "", displayName |-> nm, parent |-> "n1"],
         [id |-> sid, displayName |-> nm, parent |-> NoParent],
         [id |-> sid, displayName |-> nm, parent |-> ""] }

SectionLists ==
    UNION { { f \in [1..n -> UNION { SectionsAt(i) : i \in 1..n }] :
                \A i \in 1..n : f[i] \in SectionsAt(i) } : n \in 0..MaxSections }

\* Responses of Sections().Get
SectionResponses ==
    { [err |-> TRUE, isNil |-> FALSE, value |-> << >>],
      [err |-> FALSE, isNil |-> TRUE, value |-> << >>] }
    \cup { [err |-> FALSE, isNil |-> FALSE, value |-> l] : l \in SectionLists }

\* The k-th page of section sid: it has its own id or none
PagesAt(sid, k) ==
    { [id |-> sid \o "p" \o ToString(k), title |-> "T" \o ToString(k)],
      [id |-> "", title |-> "T" \o ToString(k)] }

\* The page lists of at most max pages
PageLists(sid, max) ==
    UNION { { f \in [1..n -> UNION { PagesAt(sid, k) : k \in 1..n }] :
                \A k \in 1..n : f[k] \in PagesAt(sid, k) } : n \in 0..max }

\* Responses of Sections().ByOnenoteSectionId(sid).Pages().Get; a nil
\* collection gives the same (empty) pageList as an empty one
PageResponses(sid, max) ==
    { [err |-> TRUE, value |-> << >>] }
    \cup { [err |-> FALSE, value |-> l] : l \in PageLists(sid, max) }

\* The bytes of an HTML page
HTMLBytes == "<p>x</p>"

\* Raw bytes a page-content call can return
ContentBytes == { HTMLBytes }

\* Responses of Pages().ByOnenotePageId(pid).Content().Get
ContentResponses ==
    { [err |-> TRUE, content |-> ""] }
    \cup { [err |-> FALSE, content |-> b] : b \in ContentBytes }

(***************************************************************************)
(* Helpers                                                                 *)
(***************************************************************************)
\* m[k] = v for a Go map held as a function
Put(m, k, v) == [x \in (DOMAIN m) \cup {k} |-> IF x = k THEN v ELSE m[x]]

EmptyMap == [x \in {} |-> << >>]

\* The orders in which a range over a Go map can visit the key set S
KeyOrders(S) ==
    { f \in [1..Cardinality(S) -> S] :
        \A i, j \in 1..Cardinality(S) : i # j => f[i] # f[j] }

RECURSIVE Concat(_)
Concat(ss) == IF ss = << >> THEN << >> ELSE Head(ss) \o Concat(Tail(ss))

\* Number of indices of the sequence s that satisfy Test
CountSeq(s, Test(_)) == Cardinality({ i \in 1..Len(s) : Test(s[i]) })

(***************************************************************************)
(* State                                                                   *)
(***************************************************************************)
VARIABLES
    authType,            \* Client.authType
    userID,              \* Client.userID
    config,              \* Client.oneNoteConcurrency
    cancelled,           \* ctx.Done() is closed
    pc,                  \* position of the orchestrator
    rawData,             \* the OneNoteRawData being built
    fetchErr,            \* error returned by the fetch ("" is nil)
    fetchSnapshot,       \* the fetch returned rawData (TRUE) or a nil pointer
    sectionJobs,         \* var sectionJobs []SectionJob
    sectionJobChan,      \* buffered job channel of the section pool
    sectionJobChanClosed,
    sectionResultChan,   \* buffered result channel of the section pool
    sectionResultChanClosed,
    sectionWG,           \* sectionWG counter
    sectionWorkers,      \* per section worker: position and the job in hand
    sectionErrors,       \* len(sectionErrors)
    sectionReceived,     \* results taken from sectionResultChan
    totalPages,
    contentJobs,         \* var contentJobs []ContentJob
    contentJobChan,
    contentJobChanClosed,
    contentResultChan,
    contentResultChanClosed,
    contentWG,
    contentWorkers,
    contentErrors,       \* len(contentErrors)
    contentReceived,     \* results taken from contentResultChan
    calls,               \* responses of the notebook-list and section-list calls issued
    sectionLog,          \* per SectionJob: times taken, calls issued, responses, results collected
    contentLog,          \* per ContentJob: times taken, calls issued, responses, results collected
    collection,          \* result of GetOneNoteDataAsJSON
    combineErr           \* error of GetOneNoteDataAsJSON ("" is nil)

clientVars == <<authType, userID, config>>
sectionPoolVars == <<sectionJobs, sectionJobChan, sectionJobChanClosed,
                     sectionResultChan, sectionResultChanClosed, sectionWG,
                     sectionWorkers, sectionErrors, sectionReceived, totalPages>>
contentPoolVars == <<contentJobs, contentJobChan, contentJobChanClosed,
                     contentResultChan, contentResultChanClosed, contentWG,
                     contentWorkers, contentErrors, contentReceived>>
outVars == <<collection, combineErr>>
logVars == <<calls, sectionLog, contentLog>>
vars == <<clientVars, cancelled, pc, rawData, fetchErr, fetchSnapshot, sectionPoolVars,
          contentPoolVars, logVars, outVars>>

\* A worker that was not spawned, or holds no job
IdleWorker == [pc |-> "idle", job |-> << >>]

\* The clients the constructors build: NewClientWithToken is delegated and
\* sets no user id; NewClient / NewClientWithUserID are application clients
\* whose user id may be empty
Clients ==
    { <<AuthTypeDelegated, "">>, <<AuthTypeApplication, "">>,
      <<AuthTypeApplication, "u1">> }

Init ==
    /\ \E c \in Clients : authType = c[1] /\ userID = c[2]
    /\ config \in [MaxSectionWorkers : WorkerCounts, MaxContentWorkers : WorkerCounts]
    /\ cancelled = FALSE
    /\ pc = "start"
    /\ rawData = [Notebooks |-> << >>, Sections |-> EmptyMap,
                  Pages |-> EmptyMap, Content |-> EmptyMap]
    /\ fetchErr = ""
    /\ fetchSnapshot = FALSE
    /\ sectionJobs = << >>
    /\ sectionJobChan = << >>
    /\ sectionJobChanClosed = FALSE
    /\ sectionResultChan = << >>
    /\ sectionResultChanClosed = FALSE
    /\ sectionWG = 0
    /\ sectionWorkers = [w \in WorkerIds |-> IdleWorker]
    /\ sectionErrors = 0
    /\ sectionReceived = 0
    /\ totalPages = 0
    /\ contentJobs = << >>
    /\ contentJobChan = << >>
    /\ contentJobChanClosed = FALSE
    /\ contentResultChan = << >>
    /\ contentResultChanClosed = FALSE
    /\ contentWG = 0
    /\ contentWorkers = [w \in WorkerIds |-> IdleWorker]
    /\ contentErrors = 0
    /\ contentReceived = 0
    /\ calls = [notebooks |-> << >>, sections |-> << >>]
    /\ sectionLog = EmptyMap
    /\ contentLog = EmptyMap
    /\ collection = [isNil |-> TRUE, Documents |-> << >>]
    /\ combineErr = ""

IsDelegatedAuth == authType = AuthTypeDelegated

(***************************************************************************)
(* The context                                                             *)
(***************************************************************************)
\* The caller cancels ctx at any moment of the run
Cancel ==
    /\ ~cancelled
    /\ pc \notin {"returned", "done"}
    /\ cancelled' = TRUE
    /\ UNCHANGED <<clientVars, pc, rawData, fetchErr, fetchSnapshot, sectionPoolVars,
                   contentPoolVars, logVars, outVars>>

(***************************************************************************)
(* Fetch orchestrator: fetchOneNoteRawDataConcurrentWithConfig             *)
(***************************************************************************)
\* a return statement of the fetch: `return rawData, nil` or `return nil, err`
Return(snapshot, e) ==
    /\ pc' = "returned"
    /\ fetchSnapshot' = snapshot
    /\ fetchErr' = e

\* variant: the user id is not checked
MissingUserID_Unchecked == FALSE

\* application flow without a user id
MissingUserID == ~IsDelegatedAuth /\ userID = ""

\* the return statements, in source order
ReturnMissingUserID == Return(FALSE, "user ID is required for application authentication flow")
ReturnNotebooksFailed == Return(FALSE, "failed to fetch notebooks")
ReturnNoNotebooks == Return(TRUE, "")
\* variant of ReturnSectionsFailed: neither a snapshot nor an error is returned
ReturnSectionsFailed_NoSnapshot == Return(FALSE, "")
\* (variant of ReturnSectionsFailed: the section-list failure is returned as an error)
ReturnSectionsFailed_AsError == Return(FALSE, "failed to fetch sections")
ReturnSectionsFailed == Return(TRUE, "")
ReturnNoSections == Return(TRUE, "")
ReturnNoSectionJobs == Return(TRUE, "")
ReturnNoContentJobs == Return(TRUE, "")
ReturnRawData == Return(TRUE, "")

\* notebooks == nil || notebooks.GetValue() == nil
NoNotebooks(resp) == resp.isNil

\* Step 1: the identity check and the notebook-list call
FetchNotebooks ==
    /\ pc = "start"
    /\ IF MissingUserID
       THEN /\ ReturnMissingUserID
            /\ UNCHANGED <<rawData, calls>>
       ELSE \E resp \in NotebookResponses :
              /\ calls' = [calls EXCEPT !.notebooks = Append(@, resp)]
              /\ IF resp.err
                 THEN ReturnNotebooksFailed /\ UNCHANGED rawData
                 ELSE IF NoNotebooks(resp)
                 THEN ReturnNoNotebooks /\ UNCHANGED rawData
                 ELSE /\ rawData' = [rawData EXCEPT !.Notebooks = resp.value]
                      /\ pc' = "sections"
                      /\ UNCHANGED <<fetchErr, fetchSnapshot>>
    /\ UNCHANGED <<clientVars, cancelled, sectionPoolVars, contentPoolVars,
                   sectionLog, contentLog, outVars>>

\* "Group sections by notebook ID": the sections with a parent notebook whose
\* id is not empty, in list order under that id
GroupSections(list) ==
    LET keep(s) == s.parent # NoParent /\ s.parent # ""
        keys == { list[i].parent : i \in { j \in 1..Len(list) : keep(list[j]) } }
    IN [nb \in keys |-> SelectSeq(list, LAMBDA s : s.parent = nb)]

\* "Collect all section jobs" for the map order `order`
SectionJobsOf(sections, order) ==
    Concat([k \in 1..Len(order) |->
              [i \in 1..Len(sections[order[k]]) |->
                 [NotebookID |-> order[k],
                  Section |-> sections[order[k]][i],
                  SectionIndex |-> i,
                  TotalSections |-> Len(sections[order[k]])]]])

\* variant: Pages gets an empty entry for every section of the list
StoreSections_WithPlaceholders(data, list) ==
    [data EXCEPT !.Sections = GroupSections(list),
                 !.Pages = [sid \in { list[i].id : i \in 1..Len(list) } |-> << >>]]

\* rawData.Sections[notebookID] = append(rawData.Sections[notebookID], section)
StoreSections(data, list) == [data EXCEPT !.Sections = GroupSections(list)]

NewJobLog == [taken |-> 0, calls |-> 0, resps |-> << >>, collected |-> 0]

\* Step 2 and the start of step 3: the section-list call, the grouping and
\* the section job list
FetchSections ==
    /\ pc = "sections"
    /\ \E resp \in SectionResponses :
         /\ calls' = [calls EXCEPT !.sections = Append(@, resp)]
         /\ IF resp.err
            THEN ReturnSectionsFailed /\ UNCHANGED <<rawData, sectionJobs, sectionLog>>
            ELSE IF resp.isNil
            THEN ReturnNoSections /\ UNCHANGED <<rawData, sectionJobs, sectionLog>>
            ELSE LET grouped == GroupSections(resp.value)
                 IN /\ rawData' = StoreSections(rawData, resp.value)
                    /\ \E order \in KeyOrders(DOMAIN grouped) :
                         LET jobs == SectionJobsOf(grouped, order)
                         IN /\ sectionJobs' = jobs
                            /\ sectionLog' = [j \in { jobs[i] : i \in 1..Len(jobs) } |-> NewJobLog]
                            /\ IF Len(jobs) = 0
                               THEN ReturnNoSectionJobs
                               ELSE /\ pc' = "startSectionWorkers"
                                    /\ UNCHANGED <<fetchErr, fetchSnapshot>>
    /\ UNCHANGED <<clientVars, cancelled, sectionJobChan, sectionJobChanClosed,
                   sectionResultChan, sectionResultChanClosed, sectionWG,
                   sectionWorkers, sectionErrors, sectionReceived, totalPages,
                   contentPoolVars, contentLog, outVars>>

\* variant: the result channel has room for one result less
ResultChanCap_OneLess(jobs) == Len(jobs) - 1

\* make(chan SectionResult, len(sectionJobs)), make(chan ContentResult,
\* len(contentJobs)): the number of results the channel holds before a send
\* blocks
ResultChanCap(jobs) == Len(jobs)

\* variant: every job is sent twice
Queued_Twice(jobs) == jobs \o jobs

\* "Send section jobs" / "Send content jobs": what the loop
\* `for _, job := range jobs { jobChan <- job }` leaves on the job channel
Queued(jobs) == jobs

\* variant: the loop runs for i <= n
Spawned_OneMore(n) == { w \in WorkerIds : w <= n + 1 }

\* The workers `go`-started by a loop `for i := 0; i < n; i++`
Spawned(n) == { w \in WorkerIds : w <= n }

\* The section pool is set up: the channels are made with room for every job,
\* "Start section workers" does one sectionWG.Add(1) and one goroutine per i,
\* "Send section jobs" queues every job (no send blocks) and closes the job
\* channel, and the goroutine that waits for the workers is started
StartSectionWorkers ==
    /\ pc = "startSectionWorkers"
    /\ sectionWorkers' = [w \in WorkerIds |->
                            IF w \in Spawned(config.MaxSectionWorkers)
                            THEN [pc |-> "recv", job |-> << >>]
                            ELSE IdleWorker]
    /\ sectionWG' = Cardinality(Spawned(config.MaxSectionWorkers))
    /\ sectionJobChan' = Queued(sectionJobs)
    /\ sectionJobChanClosed' = TRUE
    /\ pc' = "collectSections"
    /\ UNCHANGED <<clientVars, cancelled, rawData, fetchErr, fetchSnapshot, sectionJobs,
                   sectionResultChan, sectionResultChanClosed, sectionErrors,
                   sectionReceived, totalPages, contentPoolVars, logVars,
                   outVars>>

\* variant: the result channel is closed without waiting for the workers
CloseSectionResultChan_NoWait ==
    /\ sectionJobChanClosed
    /\ ~sectionResultChanClosed
    /\ sectionResultChanClosed' = TRUE
    /\ UNCHANGED <<clientVars, cancelled, pc, rawData, fetchErr, fetchSnapshot,
                   sectionJobs, sectionJobChan, sectionJobChanClosed,
                   sectionResultChan, sectionWG, sectionWorkers, sectionErrors,
                   sectionReceived, totalPages, contentPoolVars, logVars, outVars>>

\* variant: close(sectionResultChan) is missing
CloseSectionResultChan_Missing == FALSE /\ UNCHANGED vars

\* go func() { sectionWG.Wait(); close(sectionResultChan) }()
CloseSectionResultChan ==
    /\ sectionJobChanClosed
    /\ ~sectionResultChanClosed
    /\ sectionWG = 0
    /\ sectionResultChanClosed' = TRUE
    /\ UNCHANGED <<clientVars, cancelled, pc, rawData, fetchErr, fetchSnapshot, sectionJobs,
                   sectionJobChan, sectionJobChanClosed, sectionResultChan,
                   sectionWG, sectionWorkers, sectionErrors, sectionReceived,
                   totalPages, contentPoolVars, logVars, outVars>>

\* variant: the collection loop stops as soon as the channel is empty
ResultRangeEnded_OnEmpty(ch, closed) == ch = << >>

\* `for result := range ch` ends: ch is closed and drained
ResultRangeEnded(ch, closed) == closed /\ ch = << >>

\* variant: the pages are stored under the notebook id of the job
MergeSectionResult_ByNotebook(data, result) ==
    [data EXCEPT !.Pages = Put(@, result.job.NotebookID, result.Pages)]

\* rawData.Pages[result.SectionID] = result.Pages
MergeSectionResult(data, result) ==
    [data EXCEPT !.Pages = Put(@, result.SectionID, result.Pages)]

\* "Collect section results": one iteration of the range over sectionResultChan
CollectSectionResult ==
    /\ pc = "collectSections"
    /\ sectionResultChan # << >>
    /\ LET result == Head(sectionResultChan)
       IN /\ sectionResultChan' = Tail(sectionResultChan)
          /\ sectionReceived' = sectionReceived + 1
          /\ sectionLog' = [sectionLog EXCEPT ![result.job].collected = @ + 1]
          /\ IF result.Error # ""
             THEN /\ sectionErrors' = sectionErrors + 1
                  /\ UNCHANGED <<rawData, totalPages>>
             ELSE /\ rawData' = MergeSectionResult(rawData, result)
                  /\ totalPages' = totalPages + Len(result.Pages)
                  /\ UNCHANGED sectionErrors
    /\ UNCHANGED <<clientVars, cancelled, pc, fetchErr, fetchSnapshot, sectionJobs,
                   sectionJobChan, sectionJobChanClosed,
                   sectionResultChanClosed, sectionWG, sectionWorkers,
                   contentPoolVars, calls, contentLog, outVars>>

(***************************************************************************)
(* sectionWorker                                                           *)
(***************************************************************************)
\* variant: the workers never look at ctx
CtxDone_Never == FALSE

\* select { case <-ctx.Done(): ...; default: }
CtxDone == cancelled

\* variant: the cancellation result carries no error
SectionCancelResult_NoError(job) ==
    [SectionID |-> "", Pages |-> << >>, Error |-> "", job |-> job]

\* The results a section worker sends.  `job` is not a field of the Go
\* struct: it records which job the result answers.
\* SectionResult{Error: ctx.Err()}
SectionCancelResult(job) ==
    [SectionID |-> "", Pages |-> << >>, Error |-> "context canceled", job |-> job]

\* variant: the result of a section without id carries no error
SectionNoIDResult_NoError(job) ==
    [SectionID |-> job.Section.id, Pages |-> << >>, Error |-> "", job |-> job]

\* SectionResult{SectionID: sectionID, Error: "section %s has no ID"}
SectionNoIDResult(job) ==
    [SectionID |-> job.Section.id, Pages |-> << >>, Error |-> "section has no ID", job |-> job]

\* variant: the error of the list-pages call is not put in the result
SectionErrorResult_NoError(job) ==
    [SectionID |-> job.Section.id, Pages |-> << >>, Error |-> "", job |-> job]

\* SectionResult{SectionID: sectionID, Error: "failed to fetch pages ..."}
SectionErrorResult(job) ==
    [SectionID |-> job.Section.id, Pages |-> << >>, Error |-> "failed to fetch pages", job |-> job]

\* SectionResult{SectionID: sectionID, Pages: pageList, Error: nil}
SectionPagesResult(job, pageList) ==
    [SectionID |-> job.Section.id, Pages |-> pageList, Error |-> "", job |-> job]

\* variant: the cancellation branch returns without sending a result
SendSectionCancelled_Silent(results, job) == results

\* what the cancellation branch leaves on the result channel
SendSectionCancelled(results, job) == Append(results, SectionCancelResult(job))

\* top of the loop body: the job is received, ctx is checked, a section
\* without id is reported, otherwise the list-pages call is issued; a send
\* goes through when the result channel has room
SectionWorkerTake(w) ==
    /\ sectionWorkers[w].pc = "recv"
    /\ sectionJobChan # << >>
    /\ LET job == Head(sectionJobChan)
           sectionID == job.Section.id
       IN /\ sectionJobChan' = Tail(sectionJobChan)
          /\ IF CtxDone
             THEN /\ Len(sectionResultChan) < ResultChanCap(sectionJobs)
                  /\ sectionResultChan' = SendSectionCancelled(sectionResultChan, job)
                  /\ sectionWorkers' = [sectionWorkers EXCEPT ![w] = [pc |-> "done", job |-> << >>]]
                  /\ sectionWG' = sectionWG - 1
                  /\ sectionLog' = [sectionLog EXCEPT ![job].taken = @ + 1]
             ELSE IF sectionID = ""
             THEN /\ Len(sectionResultChan) < ResultChanCap(sectionJobs)
                  /\ sectionResultChan' = Append(sectionResultChan, SectionNoIDResult(job))
                  /\ sectionLog' = [sectionLog EXCEPT ![job].taken = @ + 1]
                  /\ UNCHANGED <<sectionWorkers, sectionWG>>
             ELSE /\ sectionWorkers' = [sectionWorkers EXCEPT ![w] = [pc |-> "call", job |-> <<job>>]]
                  /\ sectionLog' = [sectionLog EXCEPT ![job].taken = @ + 1,
                                                      ![job].calls = @ + 1]
                  /\ UNCHANGED <<sectionResultChan, sectionWG>>
    /\ UNCHANGED <<clientVars, cancelled, pc, rawData, fetchErr, fetchSnapshot, sectionJobs,
                   sectionJobChanClosed, sectionResultChanClosed,
                   sectionErrors, sectionReceived, totalPages, contentPoolVars,
                   calls, contentLog, outVars>>

\* number of pages the list-pages calls have returned so far
PagesReturned ==
    LET n(j) == IF sectionLog[j].resps = << >> THEN 0
                ELSE Len(sectionLog[j].resps[1].value)
        RECURSIVE Sum(_)
        Sum(S) == IF S = {} THEN 0
                  ELSE LET j == CHOOSE x \in S : TRUE IN n(j) + Sum(S \ {j})
    IN Sum(DOMAIN sectionLog)

\* variant: the worker stores the pages in the snapshot itself
SectionWorkerResult_WritesPages(w) ==
    /\ sectionWorkers[w].pc = "call"
    /\ Len(sectionResultChan) < ResultChanCap(sectionJobs)
    /\ LET job == sectionWorkers[w].job[1]
           sectionID == job.Section.id
       IN \E resp \in PageResponses(sectionID, MaxPages - PagesReturned) :
            /\ sectionResultChan' = Append(sectionResultChan,
                 IF resp.err
                 THEN SectionErrorResult(job)
                 ELSE SectionPagesResult(job, resp.value))
            /\ sectionLog' = [sectionLog EXCEPT ![job].resps = Append(@, resp)]
            /\ rawData' = IF resp.err THEN rawData
                          ELSE MergeSectionResult(rawData, SectionPagesResult(job, resp.value))
    /\ sectionWorkers' = [sectionWorkers EXCEPT ![w] = [pc |-> "recv", job |-> << >>]]
    /\ UNCHANGED <<clientVars, cancelled, pc, fetchErr, fetchSnapshot, sectionJobs,
                   sectionJobChan, sectionJobChanClosed,
                   sectionResultChanClosed, sectionWG, sectionErrors,
                   sectionReceived, totalPages, contentPoolVars, calls,
                   contentLog, outVars>>

\* the list-pages call returns and the worker sends the SectionResult
SectionWorkerResult(w) ==
    /\ sectionWorkers[w].pc = "call"
    /\ Len(sectionResultChan) < ResultChanCap(sectionJobs)
    /\ LET job == sectionWorkers[w].job[1]
           sectionID == job.Section.id
       IN \E resp \in PageResponses(sectionID, MaxPages - PagesReturned) :
            /\ sectionResultChan' = Append(sectionResultChan,
                 IF resp.err
                 THEN SectionErrorResult(job)
                 ELSE SectionPagesResult(job, resp.value))
            /\ sectionLog' = [sectionLog EXCEPT ![job].resps = Append(@, resp)]
    /\ sectionWorkers' = [sectionWorkers EXCEPT ![w] = [pc |-> "recv", job |-> << >>]]
    /\ UNCHANGED <<clientVars, cancelled, pc, rawData, fetchErr, fetchSnapshot, sectionJobs,
                   sectionJobChan, sectionJobChanClosed,
                   sectionResultChanClosed, sectionWG, sectionErrors,
                   sectionReceived, totalPages, contentPoolVars, calls,
                   contentLog, outVars>>

\* the range over the closed, drained job channel ends; defer wg.Done()
SectionWorkerExit(w) ==
    /\ sectionWorkers[w].pc = "recv"
    /\ sectionJobChan = << >>
    /\ sectionJobChanClosed
    /\ sectionWorkers' = [sectionWorkers EXCEPT ![w] = [pc |-> "done", job |-> << >>]]
    /\ sectionWG' = sectionWG - 1
    /\ UNCHANGED <<clientVars, cancelled, pc, rawData, fetchErr, fetchSnapshot, sectionJobs,
                   sectionJobChan, sectionJobChanClosed, sectionResultChan,
                   sectionResultChanClosed, sectionErrors, sectionReceived,
                   totalPages, contentPoolVars, logVars, outVars>>

(***************************************************************************)
(* Content stage of the orchestrator                                       *)
(***************************************************************************)
\* variant: a job is made for every page, with or without id
ContentJobsOf_AllPages(pages, order, total) ==
    LET all == Concat([k \in 1..Len(order) |-> pages[order[k]]])
    IN [i \in 1..Len(all) |->
          [PageID |-> all[i].id, PageTitle |-> all[i].title,
           PageIndex |-> i, TotalPages |-> total]]

\* "Collect all content jobs" for the map order `order`: the pages with an
\* id, numbered in the order they are met
ContentJobsOf(pages, order, total) ==
    LET all == Concat([k \in 1..Len(order) |-> pages[order[k]]])
        withID == SelectSeq(all, LAMBDA p : p.id # "")
    IN [i \in 1..Len(withID) |->
          [PageID |-> withID[i].id, PageTitle |-> withID[i].title,
           PageIndex |-> i, TotalPages |-> total]]

\* the range over the closed, drained sectionResultChan ends; step 4 begins
BuildContentJobs ==
    /\ pc = "collectSections"
    /\ ResultRangeEnded(sectionResultChan, sectionResultChanClosed)
    /\ \E order \in KeyOrders(DOMAIN rawData.Pages) :
         LET jobs == ContentJobsOf(rawData.Pages, order, totalPages)
         IN /\ contentJobs' = jobs
            /\ contentLog' = [j \in { jobs[i] : i \in 1..Len(jobs) } |-> NewJobLog]
            /\ IF Len(jobs) = 0
               THEN ReturnNoContentJobs
               ELSE /\ pc' = "startContentWorkers"
                    /\ UNCHANGED <<fetchErr, fetchSnapshot>>
    /\ UNCHANGED <<clientVars, cancelled, rawData, sectionPoolVars,
                   contentJobChan, contentJobChanClosed, contentResultChan,
                   contentResultChanClosed, contentWG, contentWorkers,
                   contentErrors, contentReceived, calls, sectionLog, outVars>>

\* The content pool is set up like the section pool: channels, "Start
\* content workers", "Send content jobs", close(contentJobChan) and the
\* goroutine that waits for the workers
StartContentWorkers ==
    /\ pc = "startContentWorkers"
    /\ contentWorkers' = [w \in WorkerIds |->
                            IF w \in Spawned(config.MaxContentWorkers)
                            THEN [pc |-> "recv", job |-> << >>]
                            ELSE IdleWorker]
    /\ contentWG' = Cardinality(Spawned(config.MaxContentWorkers))
    /\ contentJobChan' = Queued(contentJobs)
    /\ contentJobChanClosed' = TRUE
    /\ pc' = "collectContent"
    /\ UNCHANGED <<clientVars, cancelled, rawData, fetchErr, fetchSnapshot, sectionPoolVars,
                   contentJobs, contentResultChan, contentResultChanClosed,
                   contentErrors, contentReceived, logVars, outVars>>

\* variant: the result channel is closed without waiting for the workers
CloseContentResultChan_NoWait ==
    /\ contentJobChanClosed
    /\ ~contentResultChanClosed
    /\ contentResultChanClosed' = TRUE
    /\ UNCHANGED <<clientVars, cancelled, pc, rawData, fetchErr, fetchSnapshot,
                   sectionPoolVars, contentJobs, contentJobChan,
                   contentJobChanClosed, contentResultChan, contentWG,
                   contentWorkers, contentErrors, contentReceived, logVars,
                   outVars>>

\* go func() { contentWG.Wait(); close(contentResultChan) }()
CloseContentResultChan ==
    /\ contentJobChanClosed
    /\ ~contentResultChanClosed
    /\ contentWG = 0
    /\ contentResultChanClosed' = TRUE
    /\ UNCHANGED <<clientVars, cancelled, pc, rawData, fetchErr, fetchSnapshot,
                   sectionPoolVars, contentJobs, contentJobChan,
                   contentJobChanClosed, contentResultChan, contentWG,
                   contentWorkers, contentErrors, contentReceived, logVars,
                   outVars>>

\* variant: the map is replaced by the entry of the result
MergeContentResult_KeepsLast(data, result) ==
    [data EXCEPT !.Content = Put(EmptyMap, result.PageID, result.Content)]

\* rawData.Content[result.PageID] = result.Content
MergeContentResult(data, result) ==
    [data EXCEPT !.Content = Put(@, result.PageID, result.Content)]

\* "Collect content results": one iteration of the range over contentResultChan
CollectContentResult ==
    /\ pc = "collectContent"
    /\ contentResultChan # << >>
    /\ LET result == Head(contentResultChan)
       IN /\ contentResultChan' = Tail(contentResultChan)
          /\ contentReceived' = contentReceived + 1
          /\ contentLog' = [contentLog EXCEPT ![result.job].collected = @ + 1]
          /\ IF result.Error # ""
             THEN /\ contentErrors' = contentErrors + 1
                  /\ UNCHANGED rawData
             ELSE /\ rawData' = MergeContentResult(rawData, result)
                  /\ UNCHANGED contentErrors
    /\ UNCHANGED <<clientVars, cancelled, pc, fetchErr, fetchSnapshot,
                   sectionPoolVars, contentJobs, contentJobChan,
                   contentJobChanClosed, contentResultChanClosed, contentWG,
                   contentWorkers, calls, sectionLog, outVars>>

\* the range over the closed, drained contentResultChan ends; final summary
FinishFetch ==
    /\ pc = "collectContent"
    /\ ResultRangeEnded(contentResultChan, contentResultChanClosed)
    /\ ReturnRawData
    /\ UNCHANGED <<clientVars, cancelled, rawData, sectionPoolVars,
                   contentPoolVars, logVars, outVars>>

(***************************************************************************)
(* contentWorker                                                           *)
(***************************************************************************)
\* variant: the cancellation result carries no error
ContentCancelResult_NoError(job) ==
    [PageID |-> "", Content |-> "", Error |-> "", job |-> job]

\* The results a content worker sends; `job` records which job the result
\* answers.
\* ContentResult{Error: ctx.Err()}
ContentCancelResult(job) ==
    [PageID |-> "", Content |-> "", Error |-> "context canceled", job |-> job]

\* variant: the error of the content call is not put in the result
ContentErrorResult_NoError(job) ==
    [PageID |-> job.PageID, Content |-> "", Error |-> "", job |-> job]

\* ContentResult{PageID: job.PageID, Error: "failed to fetch content ..."}
ContentErrorResult(job) ==
    [PageID |-> job.PageID, Content |-> "", Error |-> "failed to fetch content", job |-> job]

\* variant: the bytes of the response are not put in the result
ContentBytesResult_NoContent(job, content) ==
    [PageID |-> job.PageID, Content |-> "", Error |-> "", job |-> job]

\* ContentResult{PageID: job.PageID, Content: content, Error: nil}
ContentBytesResult(job, content) ==
    [PageID |-> job.PageID, Content |-> content, Error |-> "", job |-> job]

\* what the cancellation branch leaves on the result channel
SendContentCancelled(results, job) == Append(results, ContentCancelResult(job))

\* top of the loop body: the job is received, ctx is checked, the content
\* call is issued
ContentWorkerTake(w) ==
    /\ contentWorkers[w].pc = "recv"
    /\ contentJobChan # << >>
    /\ LET job == Head(contentJobChan)
       IN /\ contentJobChan' = Tail(contentJobChan)
          /\ IF CtxDone
             THEN /\ Len(contentResultChan) < ResultChanCap(contentJobs)
                  /\ contentResultChan' = SendContentCancelled(contentResultChan, job)
                  /\ contentWorkers' = [contentWorkers EXCEPT ![w] = [pc |-> "done", job |-> << >>]]
                  /\ contentWG' = contentWG - 1
                  /\ contentLog' = [contentLog EXCEPT ![job].taken = @ + 1]
             ELSE /\ contentWorkers' = [contentWorkers EXCEPT ![w] = [pc |-> "call", job |-> <<job>>]]
                  /\ contentLog' = [contentLog EXCEPT ![job].taken = @ + 1,
                                                      ![job].calls = @ + 1]
                  /\ UNCHANGED <<contentResultChan, contentWG>>
    /\ UNCHANGED <<clientVars, cancelled, pc, rawData, fetchErr, fetchSnapshot,
                   sectionPoolVars, contentJobs, contentJobChanClosed,
                   contentResultChanClosed, contentErrors, contentReceived,
                   calls, sectionLog, outVars>>

\* the content call returns and the worker sends the ContentResult
ContentWorkerResult(w) ==
    /\ contentWorkers[w].pc = "call"
    /\ Len(contentResultChan) < ResultChanCap(contentJobs)
    /\ LET job == contentWorkers[w].job[1]
       IN \E resp \in ContentResponses :
            /\ contentResultChan' = Append(contentResultChan,
                 IF resp.err
                 THEN ContentErrorResult(job)
                 ELSE ContentBytesResult(job, resp.content))
            /\ contentLog' = [contentLog EXCEPT ![job].resps = Append(@, resp)]
    /\ contentWorkers' = [contentWorkers EXCEPT ![w] = [pc |-> "recv", job |-> << >>]]
    /\ UNCHANGED <<clientVars, cancelled, pc, rawData, fetchErr, fetchSnapshot,
                   sectionPoolVars, contentJobs, contentJobChan,
                   contentJobChanClosed, contentResultChanClosed, contentWG,
                   contentErrors, contentReceived, calls, sectionLog, outVars>>

\* the range over the closed, drained job channel ends; defer wg.Done()
ContentWorkerExit(w) ==
    /\ contentWorkers[w].pc = "recv"
    /\ contentJobChan = << >>
    /\ contentJobChanClosed
    /\ contentWorkers' = [contentWorkers EXCEPT ![w] = [pc |-> "done", job |-> << >>]]
    /\ contentWG' = contentWG - 1
    /\ UNCHANGED <<clientVars, cancelled, pc, rawData, fetchErr, fetchSnapshot,
                   sectionPoolVars, contentJobs, contentJobChan,
                   contentJobChanClosed, contentResultChan,
                   contentResultChanClosed, contentErrors, contentReceived,
                   logVars, outVars>>

(***************************************************************************)
(* Document assembly: combineOneNoteData and processPageContent            *)
(***************************************************************************)
\* The content normalizer, internal/utils.  The bytes it is applied to are
\* made of the characters < > / { } p x: none of them is white space, a
\* character reference (&...;), or one of ? # * [ ` that isXML and isMarkdown
\* need when isHTML is false, so those two branches are never taken.
TextBytes == "x"
BrokenJSONBytes == "{x}"

\* content := string(data), as the sequence of its characters
Chars(data) ==
    CASE data = "" -> << >>
      [] data = HTMLBytes -> <<"<", "p", ">", "x", "<", "/", "p", ">">>
      [] data = TextBytes -> <<"x">>
      [] data = BrokenJSONBytes -> <<"{", "x", "}">>

IsSpace(ch) == ch \in {" ", "\t", "\n", "\r"}

RECURSIVE TrimLeft(_)
TrimLeft(c) == IF c # << >> /\ IsSpace(c[1]) THEN TrimLeft(Tail(c)) ELSE c

RECURSIVE TrimRight(_)
TrimRight(c) ==
    IF c # << >> /\ IsSpace(c[Len(c)]) THEN TrimRight(SubSeq(c, 1, Len(c) - 1)) ELSE c

\* strings.TrimSpace
TrimSpace(c) == TrimRight(TrimLeft(c))

\* regexp `\s+` replaced by one space
RECURSIVE CollapseSpace(_)
CollapseSpace(c) ==
    IF c = << >> THEN << >>
    ELSE IF IsSpace(c[1]) THEN <<" ">> \o CollapseSpace(TrimLeft(c))
    ELSE <<c[1]>> \o CollapseSpace(Tail(c))

\* regexp `<[^>]+>` matches somewhere
isHTML(c) ==
    \E i, j \in 1..Len(c) :
        /\ j > i + 1 /\ c[i] = "<" /\ c[j] = ">"
        /\ \A k \in (i + 1)..(j - 1) : c[k] # ">"

\* regexp `<[^>]*>` replaced by nothing, leftmost matches first
RECURSIVE StripTags(_)
StripTags(c) ==
    IF c = << >> THEN << >>
    ELSE LET closes == { j \in 2..Len(c) : c[j] = ">" }
         IN IF c[1] = "<" /\ closes # {}
            THEN StripTags(SubSeq(c, (CHOOSE j \in closes : \A k \in closes : j <= k) + 1,
                                  Len(c)))
            ELSE <<c[1]>> \o StripTags(Tail(c))

\* tags removed, white space trimmed and collapsed (html.UnescapeString
\* leaves text without character references as it is)
HTMLToText(c) ==
    IF c = << >> THEN << >> ELSE CollapseSpace(TrimSpace(StripTags(c)))

\* "{...}" or "[...]" after trimming
isJSON(c) ==
    LET t == TrimSpace(c)
    IN /\ t # << >>
       /\ \/ t[1] = "{" /\ t[Len(t)] = "}"
          \/ t[1] = "[" /\ t[Len(t)] = "]"

\* json.Unmarshal accepts the text: of the texts these characters spell,
\* only the empty object and the empty array are JSON
ValidJSON(c) ==
    SelectSeq(c, LAMBDA ch : ~IsSpace(ch)) \in { <<"{", "}">>, <<"[", "]">> }

\* "content" is the text as given; an Unmarshal error is returned
parseExistingJSON(c) ==
    IF ValidJSON(c) THEN [err |-> FALSE, content |-> c]
    ELSE [err |-> TRUE, content |-> << >>]

\* "content" is the text as given
TextToJSON(c) == [err |-> FALSE, content |-> c]

\* utils.BytesToJSON: the error and the "content" entry of the result
BytesToJSON(data) ==
    LET content == Chars(data)
    IN IF Len(content) = 0 THEN [err |-> FALSE, content |-> << >>]
       ELSE IF isHTML(content) THEN [err |-> FALSE, content |-> HTMLToText(content)]
       ELSE IF isJSON(content) THEN parseExistingJSON(content)
       ELSE TextToJSON(content)

\* string(bytes)
RECURSIVE Str(_)
Str(c) == IF c = << >> THEN "" ELSE c[1] \o Str(Tail(c))

\* the hex digest of sha256.Sum256, written as a term over the hashed text
\* (different texts have different digests)
Sha256Hex(text) == "H(" \o Str(text) \o ")"

\* fmt.Sprintf("sha256:%x", sha256.Sum256([]byte(textContent)))
VersionHashOf(textContent) == "sha256:" \o Sha256Hex(textContent)

\* variant: the location is built from the ids
LocationOf_FromIDs(notebook, section) == "OneNote/" \o notebook.id \o "/" \o section.id

\* fmt.Sprintf("OneNote/%s/%s", notebook display name, section display name)
LocationOf(notebook, section) ==
    "OneNote/" \o notebook.displayName \o "/" \o section.displayName

\* variant: a normalizer error yields an empty document
processPageContent_EmptyOnError(page, notebook, section, content) ==
    LET contentJSON == BytesToJSON(content)
    IN IF contentJSON.err
       THEN << [ID |-> "", Title |-> "", Location |-> "",
                VersionHash |-> "", Content |-> ""] >>
       ELSE << [ID |-> page.id,
                Title |-> page.title,
                Location |-> LocationOf(notebook, section),
                VersionHash |-> VersionHashOf(contentJSON.content),
                Content |-> Str(contentJSON.content)] >>

\* variant: the hash is taken over the raw content bytes
processPageContent_HashOfBytes(page, notebook, section, content) ==
    LET contentJSON == BytesToJSON(content)
    IN IF contentJSON.err
       THEN << >>
       ELSE << [ID |-> page.id,
                Title |-> page.title,
                Location |-> LocationOf(notebook, section),
                VersionHash |-> VersionHashOf(Chars(content)),
                Content |-> Str(contentJSON.content)] >>

\* the document of a page, or nothing when the normalizer returns an error
processPageContent(page, notebook, section, content) ==
    LET contentJSON == BytesToJSON(content)
    IN IF contentJSON.err
       THEN << >>
       ELSE << [ID |-> page.id,
                Title |-> page.title,
                Location |-> LocationOf(notebook, section),
                VersionHash |-> VersionHashOf(contentJSON.content),
                Content |-> Str(contentJSON.content)] >>

\* variant: the page loop is left at the first page without content
PageDocuments_StopAtMissing(data, notebook, section) ==
    IF section.id \notin DOMAIN data.Pages THEN << >>
    ELSE LET pages == data.Pages[section.id]
             missing == { i \in 1..Len(pages) : pages[i].id \notin DOMAIN data.Content }
         IN Concat([i \in 1..Len(pages) |->
                      IF \E m \in missing : m <= i THEN << >>
                      ELSE processPageContent(pages[i], notebook, section,
                                              data.Content[pages[i].id])])

\* the documents of one section, one notebook, the whole snapshot
PageDocuments(data, notebook, section) ==
    IF section.id \notin DOMAIN data.Pages THEN << >>
    ELSE LET pages == data.Pages[section.id]
         IN Concat([i \in 1..Len(pages) |->
                      IF pages[i].id \notin DOMAIN data.Content THEN << >>
                      ELSE processPageContent(pages[i], notebook, section,
                                              data.Content[pages[i].id])])

SectionDocuments(data, notebook) ==
    IF notebook.id \notin DOMAIN data.Sections THEN << >>
    ELSE LET sections == data.Sections[notebook.id]
         IN Concat([i \in 1..Len(sections) |-> PageDocuments(data, notebook, sections[i])])

Documents(data) ==
    Concat([i \in 1..Len(data.Notebooks) |-> SectionDocuments(data, data.Notebooks[i])])

\* combineOneNoteData after the fetch has returned: (nil, err) on a fetch
\* error, otherwise the assembled collection
combineOneNoteData ==
    /\ pc = "returned"
    /\ pc' = "done"
    /\ IF fetchErr # ""
       THEN /\ collection' = [isNil |-> TRUE, Documents |-> << >>]
            /\ combineErr' = "failed to fetch OneNote data: " \o fetchErr
       ELSE /\ collection' = [isNil |-> FALSE, Documents |-> Documents(rawData)]
            /\ combineErr' = ""
    /\ UNCHANGED <<clientVars, cancelled, rawData, fetchErr, fetchSnapshot,
                   sectionPoolVars, contentPoolVars, logVars>>

(***************************************************************************)
(* Specification                                                           *)
(***************************************************************************)
\* the steps of the fetch: the orchestrator, the two closer goroutines and the
\* workers
FetchStep ==
    \/ FetchNotebooks
    \/ FetchSections
    \/ StartSectionWorkers
    \/ CloseSectionResultChan
    \/ CollectSectionResult
    \/ \E w \in WorkerIds : SectionWorkerTake(w)
    \/ \E w \in WorkerIds : SectionWorkerResult(w)
    \/ \E w \in WorkerIds : SectionWorkerExit(w)
    \/ BuildContentJobs
    \/ StartContentWorkers
    \/ CloseContentResultChan
    \/ CollectContentResult
    \/ FinishFetch
    \/ \E w \in WorkerIds : ContentWorkerTake(w)
    \/ \E w \in WorkerIds : ContentWorkerResult(w)
    \/ \E w \in WorkerIds : ContentWorkerExit(w)

Next ==
    \/ Cancel
    \/ FetchStep
    \/ combineOneNoteData

Spec == Init /\ [][Next]_vars

\* Every runnable goroutine is eventually scheduled and every remote call
\* returns: a step of the fetch that stays possible is eventually taken.
\* Nothing is assumed about when, or whether, ctx is cancelled.
FairSpec == Spec /\ WF_vars(FetchStep)

(***************************************************************************)
(* Document assembly on its own: combineOneNoteData applied to a snapshot   *)
(* the fetch has returned                                                  *)
(***************************************************************************)
\* most pages of one section in a snapshot
MaxAssemblyPages == 2

\* content bytes of a snapshot: none, HTML, plain text with the same text as
\* the HTML, and text that looks like JSON and is not
AssemblyBytes == { "", HTMLBytes, TextBytes, BrokenJSONBytes }

\* a notebook whose display name is nil
NotebookNoName == [id |-> "n1", displayName |-> ""]

AssemblyNotebooks ==
    { << >>, <<NotebookA>>, <<NotebookA, NotebookB>>, <<NotebookNoName, NotebookB>> }

\* the i-th notebook has no Sections entry, or one section with or without
\* display name
AssemblySectionLists(i) ==
    { << [id |-> "s" \o ToString(i), displayName |-> "S" \o ToString(i),
          parent |-> "n" \o ToString(i)] >>,
      << [id |-> "s" \o ToString(i), displayName |-> "",
          parent |-> "n" \o ToString(i)] >> }

AssemblySections ==
    UNION { { f \in [{ "n" \o ToString(i) : i \in K } ->
                       UNION { AssemblySectionLists(i) : i \in K }] :
                \A i \in K : f["n" \o ToString(i)] \in AssemblySectionLists(i) }
            : K \in SUBSET {1, 2} }

\* a section has no Pages entry, or pages with ids, or one page without id
AssemblyPageLists(sid) ==
    { [k \in 1..n |-> [id |-> sid \o "p" \o ToString(k), title |-> "T" \o ToString(k)]]
        : n \in 0..MaxAssemblyPages }
    \cup { << [id |-> "", title |-> "T1"] >> }

AssemblyPages ==
    UNION { { f \in [K -> UNION { AssemblyPageLists(sid) : sid \in K }] :
                \A sid \in K : f[sid] \in AssemblyPageLists(sid) }
            : K \in SUBSET {"s1", "s2"} }

\* Content holds bytes for some of the pages with an id
PagesWithID(pages) ==
    UNION { { pages[sid][k].id : k \in 1..Len(pages[sid]) } : sid \in DOMAIN pages } \ {""}

AssemblyContent(pages) ==
    UNION { [K -> AssemblyBytes] : K \in SUBSET PagesWithID(pages) }

\* fetchOneNoteRawDataConcurrent has returned (snapshot, nil)
AssemblyInit ==
    /\ authType = AuthTypeDelegated /\ userID = ""
    /\ config = [MaxSectionWorkers |-> MaxWorkers, MaxContentWorkers |-> MaxWorkers]
    /\ cancelled = FALSE
    /\ pc = "returned"
    /\ \E nbs \in AssemblyNotebooks, secs \in AssemblySections, pages \in AssemblyPages :
         \E content \in AssemblyContent(pages) :
            rawData = [Notebooks |-> nbs, Sections |-> secs,
                       Pages |-> pages, Content |-> content]
    /\ fetchErr = ""
    /\ fetchSnapshot = TRUE
    /\ sectionJobs = << >>
    /\ sectionJobChan = << >>
    /\ sectionJobChanClosed = FALSE
    /\ sectionResultChan = << >>
    /\ sectionResultChanClosed = FALSE
    /\ sectionWG = 0
    /\ sectionWorkers = [w \in WorkerIds |-> IdleWorker]
    /\ sectionErrors = 0
    /\ sectionReceived = 0
    /\ totalPages = 0
    /\ contentJobs = << >>
    /\ contentJobChan = << >>
    /\ contentJobChanClosed = FALSE
    /\ contentResultChan = << >>
    /\ contentResultChanClosed = FALSE
    /\ contentWG = 0
    /\ contentWorkers = [w \in WorkerIds |-> IdleWorker]
    /\ contentErrors = 0
    /\ contentReceived = 0
    /\ calls = [notebooks |-> << >>, sections |-> << >>]
    /\ sectionLog = EmptyMap
    /\ contentLog = EmptyMap
    /\ collection = [isNil |-> TRUE, Documents |-> << >>]
    /\ combineErr = ""

AssemblyNext == combineOneNoteData

AssemblySpec == AssemblyInit /\ [][AssemblyNext]_vars

(***************************************************************************)
(* Properties                                                              *)
(***************************************************************************)
\* a pool's channels exist once its workers have been started
SectionPoolStarted == sectionJobChanClosed
ContentPoolStarted == contentJobChanClosed

\* the range over a pool's result channel has seen the channel closed and empty
SectionsCollected ==
    SectionPoolStarted /\ sectionResultChanClosed /\ sectionResultChan = << >>
ContentCollected ==
    ContentPoolStarted /\ contentResultChanClosed /\ contentResultChan = << >>

Returned == pc \in {"returned", "done"}

SectionJobSet == DOMAIN sectionLog
ContentJobSet == DOMAIN contentLog

\* results sent so far for one job: those collected and those still queued
SectionResultsFor(j) ==
    sectionLog[j].collected + CountSeq(sectionResultChan, LAMBDA r : r.job = j)
ContentResultsFor(j) ==
    contentLog[j].collected + CountSeq(contentResultChan, LAMBDA r : r.job = j)

InChan(ch, j) == \E i \in 1..Len(ch) : ch[i] = j

\* the remote call of the job was issued and failed / succeeded
CallFailed(log, j) == log[j].resps # << >> /\ log[j].resps[1].err
CallSucceeded(log, j) == log[j].resps # << >> /\ ~log[j].resps[1].err

WorkersFinished(workers) == \A w \in WorkerIds : workers[w].pc \in {"idle", "done"}
WorkersStarted(workers) == \E w \in WorkerIds : workers[w].pc # "idle"

\* C1: with positive worker counts and no cancellation, a pool whose results
\* have all been collected has delivered exactly one result per dispatched
\* job: results received = jobs dispatched, for both pools
C1_OneResultPerJob ==
    /\ (config.MaxSectionWorkers > 0 /\ ~cancelled /\ SectionsCollected)
         => /\ sectionReceived = Len(sectionJobs)
            /\ \A j \in SectionJobSet : sectionLog[j].collected = 1
    /\ (config.MaxContentWorkers > 0 /\ ~cancelled /\ ContentCollected)
         => /\ contentReceived = Len(contentJobs)
            /\ \A j \in ContentJobSet : contentLog[j].collected = 1

\* a run without cancellation, two workers per pool, two jobs per pool, one
\* failure in each pool, everything collected
C1_Witness ==
    /\ pc = "returned" /\ ~cancelled
    /\ config.MaxSectionWorkers = 2 /\ config.MaxContentWorkers = 2
    /\ Len(sectionJobs) = 2 /\ sectionReceived = 2 /\ sectionErrors = 1
    /\ Len(contentJobs) = 2 /\ contentReceived = 2 /\ contentErrors = 1

\* C2 as stated: once a pool's results are collected, every job that was put
\* on its job queue has yielded a result, also when ctx was cancelled
C2_EveryQueuedJobYieldsResult ==
    /\ (config.MaxSectionWorkers > 0 /\ SectionsCollected)
         => \A j \in SectionJobSet : sectionLog[j].collected >= 1
    /\ (config.MaxContentWorkers > 0 /\ ContentCollected)
         => \A j \in ContentJobSet : contentLog[j].collected >= 1

\* C2 amended: every job a worker took from the queue yields exactly one
\* result (in hand, queued or collected); a job no worker took is still in
\* the job queue and has no result
C2_EveryTakenJobYieldsResult ==
    /\ \A j \in SectionJobSet :
         /\ sectionLog[j].taken <= 1
         /\ SectionResultsFor(j)
              + Cardinality({ w \in WorkerIds : sectionWorkers[w].job = <<j>> })
              = sectionLog[j].taken
         /\ SectionsCollected => sectionLog[j].collected = sectionLog[j].taken
         /\ (SectionPoolStarted /\ sectionLog[j].taken = 0) => InChan(sectionJobChan, j)
    /\ \A j \in ContentJobSet :
         /\ contentLog[j].taken <= 1
         /\ ContentResultsFor(j)
              + Cardinality({ w \in WorkerIds : contentWorkers[w].job = <<j>> })
              = contentLog[j].taken
         /\ ContentCollected => contentLog[j].collected = contentLog[j].taken
         /\ (ContentPoolStarted /\ contentLog[j].taken = 0) => InChan(contentJobChan, j)

\* ctx was cancelled while the section pool ran: one job got the cancellation
\* result, another was left in the queue by the only worker
C2_Witness ==
    /\ cancelled /\ SectionsCollected
    /\ config.MaxSectionWorkers = 1
    /\ sectionErrors = 1
    /\ \E j \in SectionJobSet : sectionLog[j].taken = 1 /\ sectionLog[j].calls = 0
                                  /\ j.Section.id # "" /\ sectionLog[j].collected = 1
    /\ \E j \in SectionJobSet : sectionLog[j].taken = 0

\* C3 as stated: no pool runs without a worker (a worker count below 1 is
\* rejected or clamped before the pool is started)
C3_NoPoolWithoutWorkers ==
    /\ SectionPoolStarted => WorkersStarted(sectionWorkers)
    /\ ContentPoolStarted => WorkersStarted(contentWorkers)

\* the fetch has returned, the result channel of every pool that ran is
\* closed and no worker is still running
FetchReturnedClean ==
    /\ Returned
    /\ SectionPoolStarted => sectionResultChanClosed
    /\ ContentPoolStarted => contentResultChanClosed
    /\ WorkersFinished(sectionWorkers)
    /\ WorkersFinished(contentWorkers)

\* C4: for every worker count, job list, failure pattern and cancellation
\* moment, the fetch eventually returns, with the result channel of every
\* pool it started closed and every spawned worker finished
C4_FetchTerminates == <>FetchReturnedClean

\* the fetch returned after cancellation, both pools ran, no content worker
\* was configured
C4_Witness ==
    /\ pc = "returned" /\ cancelled
    /\ SectionPoolStarted /\ ContentPoolStarted
    /\ config.MaxContentWorkers <= 0
    /\ sectionResultChanClosed /\ contentResultChanClosed

\* C5: with no cancellation and at least one worker, the error results of a
\* collected pool are exactly the jobs whose call failed (plus, for
\* sections, the jobs without section id), and there is one result per job
C5_ErrorCount ==
    /\ (config.MaxSectionWorkers >= 1 /\ ~cancelled /\ SectionsCollected)
         => /\ sectionReceived = Len(sectionJobs)
            /\ sectionErrors =
                 Cardinality({ j \in SectionJobSet :
                                 j.Section.id = "" \/ CallFailed(sectionLog, j) })
    /\ (config.MaxContentWorkers >= 1 /\ ~cancelled /\ ContentCollected)
         => /\ contentReceived = Len(contentJobs)
            /\ contentErrors =
                 Cardinality({ j \in ContentJobSet : CallFailed(contentLog, j) })

\* two section jobs on two workers: one section without id, one whose call
\* failed; both error results collected
C5_Witness ==
    /\ ~cancelled /\ SectionsCollected /\ config.MaxSectionWorkers = 2
    /\ sectionReceived = 2 /\ sectionErrors = 2
    /\ \E j \in SectionJobSet : j.Section.id = ""
    /\ \E j \in SectionJobSet : CallFailed(sectionLog, j)

\* the notebook-list call succeeded with a nil collection or an empty list
NotebookListEmpty ==
    /\ calls.notebooks # << >>
    /\ ~calls.notebooks[1].err
    /\ calls.notebooks[1].isNil \/ calls.notebooks[1].value = << >>

\* C6 as stated: after an empty notebook list the fetch has returned, without
\* error, with an empty snapshot, no section-list call and no worker
C6_EmptyNotebookListReturnsAtOnce ==
    NotebookListEmpty =>
        /\ Returned /\ fetchErr = "" /\ fetchSnapshot
        /\ DOMAIN rawData.Sections = {}
        /\ DOMAIN rawData.Pages = {}
        /\ DOMAIN rawData.Content = {}
        /\ calls.sections = << >>
        /\ ~WorkersStarted(sectionWorkers) /\ ~WorkersStarted(contentWorkers)

\* C7: a section whose list-pages call failed is never a key of Pages; once
\* the fetch has returned, every section whose call succeeded is a key of
\* Pages and holds the pages that call returned
C7_FailedSectionAbsent ==
    \A j \in SectionJobSet :
        /\ CallFailed(sectionLog, j) => j.Section.id \notin DOMAIN rawData.Pages
        /\ (Returned /\ CallSucceeded(sectionLog, j))
             => /\ j.Section.id \in DOMAIN rawData.Pages
                /\ rawData.Pages[j.Section.id] = sectionLog[j].resps[1].value

\* two sections of one notebook: the call of one failed, the sibling is in
\* Pages with a page
C7_Witness ==
    /\ pc = "returned"
    /\ \E j, k \in SectionJobSet :
         /\ j.NotebookID = k.NotebookID
         /\ CallFailed(sectionLog, j)
         /\ CallSucceeded(sectionLog, k)
         /\ k.Section.id \in DOMAIN rawData.Pages
         /\ rawData.Pages[k.Section.id] # << >>

\* C8: a page whose content call failed is never a key of Content; once the
\* fetch has returned, every page whose call succeeded is a key of Content
\* and holds the bytes that call returned
C8_FailedPageAbsent ==
    \A j \in ContentJobSet :
        /\ CallFailed(contentLog, j) => j.PageID \notin DOMAIN rawData.Content
        /\ (Returned /\ CallSucceeded(contentLog, j))
             => /\ j.PageID \in DOMAIN rawData.Content
                /\ rawData.Content[j.PageID] = contentLog[j].resps[1].content

\* two pages of one section: the content call of one failed, the sibling has
\* its content
C8_Witness ==
    /\ pc = "returned"
    /\ \E s \in DOMAIN rawData.Pages :
         /\ Len(rawData.Pages[s]) = 2
         /\ \E j, k \in ContentJobSet :
              /\ j.PageID = rawData.Pages[s][1].id
              /\ k.PageID = rawData.Pages[s][2].id
              /\ CallFailed(contentLog, j)
              /\ k.PageID \in DOMAIN rawData.Content

NotebookCallFailed == calls.notebooks # << >> /\ calls.notebooks[1].err

\* C9: the fetch returns an error, and then no snapshot, exactly when the
\* user id is missing in application mode or the notebook-list call failed;
\* otherwise it returns the snapshot and a nil error
C9_OnlyTwoFatalErrors ==
    Returned =>
        /\ fetchErr # "" <=> (MissingUserID \/ NotebookCallFailed)
        /\ fetchSnapshot <=> fetchErr = ""

\* a run that returns the snapshot although a list-pages call and a content
\* call failed
C9_Witness ==
    /\ pc = "returned" /\ fetchErr = "" /\ fetchSnapshot
    /\ \E j \in SectionJobSet : CallFailed(sectionLog, j)
    /\ \E j \in ContentJobSet : CallFailed(contentLog, j)

\* C10: in application mode without user id the fetch returns its error
\* before any remote call and any worker, and GetOneNoteDataAsJSON returns
\* that error and a nil collection
C10_FailsFastWithoutUserID ==
    (authType = AuthTypeApplication /\ userID = "" /\ pc # "start") =>
        /\ fetchErr = "user ID is required for application authentication flow"
        /\ ~fetchSnapshot
        /\ calls.notebooks = << >> /\ calls.sections = << >>
        /\ SectionJobSet = {} /\ ContentJobSet = {}
        /\ ~WorkersStarted(sectionWorkers) /\ ~WorkersStarted(contentWorkers)
        /\ pc = "done" => /\ collection.isNil
                          /\ combineErr = "failed to fetch OneNote data: " \o fetchErr

\* GetOneNoteDataAsJSON has returned for an application client without user id
C10_Witness ==
    /\ pc = "done"
    /\ authType = AuthTypeApplication /\ userID = ""
    /\ collection.isNil /\ combineErr # ""

SectionsCallFailed == calls.sections # << >> /\ calls.sections[1].err

\* C11: after a section-list failure the fetch has returned a nil error and
\* a snapshot with the fetched notebooks and empty Sections, Pages and
\* Content; no job was dispatched and no worker started
C11_SectionListFailureNotFatal ==
    SectionsCallFailed =>
        /\ Returned /\ fetchErr = "" /\ fetchSnapshot
        /\ rawData.Notebooks = calls.notebooks[1].value
        /\ DOMAIN rawData.Sections = {}
        /\ DOMAIN rawData.Pages = {}
        /\ DOMAIN rawData.Content = {}
        /\ SectionJobSet = {} /\ ContentJobSet = {}
        /\ ~WorkersStarted(sectionWorkers) /\ ~WorkersStarted(contentWorkers)
        /\ pc = "done" => ~collection.isNil /\ combineErr = ""

\* two notebooks were fetched, then the section-list call failed
C11_Witness ==
    /\ pc = "returned" /\ SectionsCallFailed
    /\ Len(rawData.Notebooks) = 2 /\ fetchSnapshot

\* remote calls of a pool that have been issued and have not returned
CallsInFlight(workers) == Cardinality({ w \in WorkerIds : workers[w].pc = "call" })

C13_StagesDoNotOverlap ==
    (WorkersStarted(contentWorkers) \/ \E j \in ContentJobSet : contentLog[j].calls > 0)
        => /\ WorkersFinished(sectionWorkers)
           /\ SectionsCollected
           /\ \A j \in SectionJobSet :
                /\ sectionLog[j].collected = sectionLog[j].taken
                /\ CallSucceeded(sectionLog, j)
                     => /\ j.Section.id \in DOMAIN rawData.Pages
                        /\ rawData.Pages[j.Section.id] = sectionLog[j].resps[1].value

\* a page-content call is in flight after a section stage of two jobs on two
\* workers
C13_Witness ==
    /\ CallsInFlight(contentWorkers) >= 1
    /\ config.MaxSectionWorkers = 2
    /\ Len(sectionJobs) = 2 /\ sectionReceived = 2

\* what one step may do to a result channel: close it, once, when every
\* worker of the pool has finished; grow it only while it is open
ResultChanStep(closed, closedNext, ch, chNext, workers) ==
    /\ closedNext # closed => ~closed /\ closedNext /\ WorkersFinished(workers)
    /\ Len(chNext) > Len(ch) => ~closed
    /\ closed => closedNext

\* C14: each result channel is closed once, after every worker of its pool
\* has finished, no result is sent on a closed channel, and the collection
\* loop of a stage is left only when its channel is closed
C14_CloseAfterWorkers ==
    [][ /\ ResultChanStep(sectionResultChanClosed, sectionResultChanClosed',
                          sectionResultChan, sectionResultChan', sectionWorkers)
        /\ ResultChanStep(contentResultChanClosed, contentResultChanClosed',
                          contentResultChan, contentResultChan', contentWorkers)
        /\ (pc = "collectSections" /\ pc' # pc) => sectionResultChanClosed
        /\ (pc = "collectContent" /\ pc' # pc) => contentResultChanClosed ]_vars

\* both pools ran with two workers and two jobs and both channels are closed
C14_Witness ==
    /\ sectionResultChanClosed /\ contentResultChanClosed
    /\ config.MaxSectionWorkers = 2 /\ config.MaxContentWorkers = 2
    /\ sectionReceived = 2 /\ contentReceived = 2
    /\ pc = "returned"

\* C15: every key of Pages is the section id of a dispatched section job and
\* every key of Content is the page id of a dispatched content job
C15_KeysAreDispatched ==
    /\ DOMAIN rawData.Pages \subseteq { j.Section.id : j \in SectionJobSet }
    /\ DOMAIN rawData.Content \subseteq { j.PageID : j \in ContentJobSet }

\* the section list held a section that was not dispatched (no parent
\* notebook) next to one whose pages and content were fetched
C15_Witness ==
    /\ pc = "returned"
    /\ calls.sections # << >>
    /\ \E i \in 1..Len(calls.sections[1].value) :
         calls.sections[1].value[i].parent = NoParent
    /\ DOMAIN rawData.Pages # {}
    /\ DOMAIN rawData.Content # {}

\* a worker of a pool pulls the head of the job queue while ctx is cancelled:
\* no call is issued for the job, one result with the cancellation error is
\* sent for it, and one worker goes from receiving to finished
CancelledPull(jobs, jobsNext, log, logNext, results, resultsNext, workers, workersNext) ==
    (cancelled /\ jobs # << >> /\ jobsNext = Tail(jobs)) =>
        LET job == Head(jobs)
        IN /\ logNext[job].calls = 0
           /\ Len(resultsNext) = Len(results) + 1
           /\ resultsNext[Len(resultsNext)].job = job
           /\ resultsNext[Len(resultsNext)].Error = "context canceled"
           /\ \E w \in WorkerIds :
                /\ workers[w].pc = "recv" /\ workersNext[w].pc = "done"
                /\ \A v \in WorkerIds \ {w} : workersNext[v] = workers[v]

\* a finished worker stays finished
StaysDone(workers, workersNext) ==
    \A w \in WorkerIds : workers[w].pc = "done" => workersNext[w] = workers[w]

\* C20: a worker that finds ctx cancelled when it has pulled a job issues no
\* call for the job, sends exactly one result with the cancellation error,
\* pulls no further job and terminates
C20_CancelledWorkerStops ==
    [][ /\ CancelledPull(sectionJobChan, sectionJobChan', sectionLog, sectionLog',
                         sectionResultChan, sectionResultChan',
                         sectionWorkers, sectionWorkers')
        /\ CancelledPull(contentJobChan, contentJobChan', contentLog, contentLog',
                         contentResultChan, contentResultChan',
                         contentWorkers, contentWorkers')
        /\ StaysDone(sectionWorkers, sectionWorkers')
        /\ StaysDone(contentWorkers, contentWorkers') ]_vars

\* a content worker has stopped on the cancellation with a job left in the
\* queue and its cancellation result on the result channel
C20_Witness ==
    /\ cancelled
    /\ contentJobChan # << >>
    /\ \E w \in WorkerIds : contentWorkers[w].pc = "done"
    /\ \E i \in 1..Len(contentResultChan) :
         contentResultChan[i].Error = "context canceled"

\* the pages the walk of combineOneNoteData reaches: a notebook of the list,
\* a section of its Sections entry, a page of that section's Pages entry
Reached(data) ==
    UNION { UNION { { [notebook |-> data.Notebooks[i],
                       section |-> data.Sections[data.Notebooks[i].id][k],
                       page |-> data.Pages[data.Sections[data.Notebooks[i].id][k].id][m]]
                      : m \in 1..Len(data.Pages[data.Sections[data.Notebooks[i].id][k].id]) }
                    : k \in { x \in 1..Len(data.Sections[data.Notebooks[i].id]) :
                                data.Sections[data.Notebooks[i].id][x].id \in DOMAIN data.Pages } }
            : i \in { x \in 1..Len(data.Notebooks) :
                        data.Notebooks[x].id \in DOMAIN data.Sections } }

HasContent(data, node) == node.page.id \in DOMAIN data.Content
Decodes(data, node) == ~BytesToJSON(data.Content[node.page.id]).err

Assembled == pc = "done" /\ fetchErr = ""
DocumentSet == { collection.Documents[i] : i \in 1..Len(collection.Documents) }
DocumentsOf(pageID) ==
    Cardinality({ i \in 1..Len(collection.Documents) : collection.Documents[i].ID = pageID })

\* C16: assembly returns a non-nil collection and no error whatever entries
\* the snapshot lacks; every document belongs to a page whose id is a key of
\* Content, and every reached page with content that decodes has a document,
\* whatever was skipped before it
C16_SkipsWhatIsMissing ==
    Assembled =>
        /\ ~collection.isNil /\ combineErr = ""
        /\ \A d \in DocumentSet : d.ID \in DOMAIN rawData.Content
        /\ \A node \in Reached(rawData) :
             IF HasContent(rawData, node) /\ Decodes(rawData, node)
             THEN DocumentsOf(node.page.id) >= 1
             ELSE DocumentsOf(node.page.id) = 0
        /\ Reached(rawData) = {} => collection.Documents = << >>

\* the first notebook has no Sections entry, the first page of the second
\* notebook's section has no content, its second page has a document
C16_Witness ==
    /\ Assembled
    /\ Len(rawData.Notebooks) = 2
    /\ "n1" \notin DOMAIN rawData.Sections
    /\ "s1" \notin DOMAIN rawData.Pages
    /\ "s2" \in DOMAIN rawData.Pages /\ Len(rawData.Pages["s2"]) = 2
    /\ "s2p1" \notin DOMAIN rawData.Content
    /\ Len(collection.Documents) = 1
    /\ collection.Documents[1].ID = "s2p2"

\* C17: a page whose bytes the normalizer rejects has no document and causes
\* no error; every other reached page with content has exactly one document
C17_DecodeFailureSkipsOnePage ==
    Assembled =>
        /\ ~collection.isNil /\ combineErr = ""
        /\ \A node \in Reached(rawData) :
             HasContent(rawData, node) =>
                DocumentsOf(node.page.id) = (IF Decodes(rawData, node) THEN 1 ELSE 0)
        /\ Len(collection.Documents) =
             Cardinality({ node \in Reached(rawData) :
                             HasContent(rawData, node) /\ Decodes(rawData, node) })

\* the first page of a section does not decode, the second one and a page of
\* the other notebook have their documents
C17_Witness ==
    /\ Assembled
    /\ \E node \in Reached(rawData) :
         /\ node.page.id = "s1p1"
         /\ HasContent(rawData, node) /\ ~Decodes(rawData, node)
    /\ Len(collection.Documents) = 2
    /\ collection.Documents[1].ID = "s1p2"
    /\ collection.Documents[2].ID = "s2p1"

\* C18: the content of a document is the text the normalizer returns for the
\* page's bytes and its hash is "sha256:" and the digest of that text, not
\* of the bytes; equal texts give equal hashes
C18_HashOfNormalizedText ==
    Assembled =>
        /\ \A d \in DocumentSet :
             LET bytes == rawData.Content[d.ID]
                 text == BytesToJSON(bytes).content
             IN /\ d.Content = Str(text)
                /\ d.VersionHash = "sha256:" \o Sha256Hex(text)
                /\ text # Chars(bytes)
                     => d.VersionHash # "sha256:" \o Sha256Hex(Chars(bytes))
        /\ \A d, e \in DocumentSet : d.Content = e.Content => d.VersionHash = e.VersionHash

\* two pages with different bytes and the same text have the same hash, and
\* a page with empty text has a hash
C18_Witness ==
    /\ Assembled
    /\ \E d, e \in DocumentSet :
         /\ rawData.Content[d.ID] = HTMLBytes /\ rawData.Content[e.ID] = TextBytes
         /\ d.VersionHash = e.VersionHash
    /\ \E d \in DocumentSet : d.Content = "" /\ d.VersionHash = "sha256:" \o Sha256Hex(<< >>)

\* every document carries the id of a reached page and the location of the
\* notebook and section it was reached under
DocumentsLocated ==
    \A d \in DocumentSet :
        \E node \in Reached(rawData) :
            /\ d.ID = node.page.id
            /\ d.Location = "OneNote/" \o node.notebook.displayName
                              \o "/" \o node.section.displayName

\* notebook A with one section with two pages with content, notebook B with
\* one section with one page without content
TwoNotebookSnapshot ==
    /\ rawData.Notebooks = <<NotebookA, NotebookB>>
    /\ DOMAIN rawData.Sections = {"n1", "n2"}
    /\ DOMAIN rawData.Pages = {"s1", "s2"}
    /\ Len(rawData.Pages["s1"]) = 2
    /\ Len(rawData.Pages["s2"]) = 1
    /\ DOMAIN rawData.Content = {"s1p1", "s1p2"}

UnderNotebookA ==
    /\ Len(collection.Documents) = 2
    /\ \A d \in DocumentSet :
         d.Location = "OneNote/A/" \o rawData.Sections["n1"][1].displayName

\* C19 as stated: documents are located under their notebook and section,
\* and the two-notebook snapshot gives exactly two documents under A
C19_TwoDocumentsUnderA ==
    Assembled =>
        /\ DocumentsLocated
        /\ TwoNotebookSnapshot => UnderNotebookA

\* C19 amended: as stated, for a two-notebook snapshot in which the content
\* of both pages of A decodes
C19_TwoDecodedDocumentsUnderA ==
    Assembled =>
        /\ DocumentsLocated
        /\ (TwoNotebookSnapshot
              /\ \A id \in {"s1p1", "s1p2"} : ~BytesToJSON(rawData.Content[id]).err)
             => UnderNotebookA

\* the two-notebook snapshot assembled into its two documents
C19_Witness ==
    /\ Assembled /\ TwoNotebookSnapshot
    /\ Len(collection.Documents) = 2
    /\ collection.Documents[1].ID = "s1p1"
    /\ collection.Documents[2].ID = "s1p2"
    /\ collection.Documents[1].Location = "OneNote/A/S1"

(***************************************************************************)
(* Grouping of the flat section list                                       *)
(***************************************************************************)
\* ids of the notebooks held in the snapshot
NotebookIDs == { rawData.Notebooks[i].id : i \in 1..Len(rawData.Notebooks) }

\* C21: every key of Sections is the id of a notebook of the snapshot, and
\* every dispatched section job (hence every list-pages call) is for a
\* section whose parent notebook is one of the notebooks of the snapshot
C21_UnresolvableParentsDropped ==
    /\ DOMAIN rawData.Sections \subseteq NotebookIDs
    /\ \A j \in SectionJobSet :
         /\ j.NotebookID \in NotebookIDs
         /\ sectionLog[j].calls > 0 => j.Section.parent \in NotebookIDs

(***************************************************************************)
(* Who touches the snapshot                                                *)
(***************************************************************************)
\* a step that writes Pages is one iteration of the orchestrator's range over
\* sectionResultChan: a result leaves the channel and no worker moves
PagesWrittenByCollector ==
    rawData'.Pages # rawData.Pages =>
        /\ pc = "collectSections" /\ pc' = pc
        /\ sectionResultChan # << >>
        /\ sectionResultChan' = Tail(sectionResultChan)
        /\ sectionReceived' = sectionReceived + 1
        /\ sectionWorkers' = sectionWorkers
        /\ sectionJobChan' = sectionJobChan
        /\ sectionWG' = sectionWG

\* a step that writes Content is one iteration of the orchestrator's range
\* over contentResultChan
ContentWrittenByCollector ==
    rawData'.Content # rawData.Content =>
        /\ pc = "collectContent" /\ pc' = pc
        /\ contentResultChan # << >>
        /\ contentResultChan' = Tail(contentResultChan)
        /\ contentReceived' = contentReceived + 1
        /\ contentWorkers' = contentWorkers
        /\ contentJobChan' = contentJobChan
        /\ contentWG' = contentWG

\* a step in which a worker moves, pulls a job or sends a result leaves the
\* snapshot as it is, and what it sends is made of the job and the response
\* of the call alone
WorkerStepLeavesSnapshot ==
    /\ ( \/ sectionWorkers' # sectionWorkers
         \/ contentWorkers' # contentWorkers
         \/ sectionJobChan' # sectionJobChan
         \/ contentJobChan' # contentJobChan
         \/ Len(sectionResultChan') > Len(sectionResultChan)
         \/ Len(contentResultChan') > Len(contentResultChan) ) => rawData' = rawData
    /\ Len(sectionResultChan') > Len(sectionResultChan) =>
         LET r == sectionResultChan'[Len(sectionResultChan')]
         IN /\ r.SectionID \in {r.job.Section.id, ""}
            /\ r.Pages = IF CallSucceeded(sectionLog', r.job)
                         THEN sectionLog'[r.job].resps[1].value ELSE << >>
    /\ Len(contentResultChan') > Len(contentResultChan) =>
         LET r == contentResultChan'[Len(contentResultChan')]
         IN /\ r.PageID \in {r.job.PageID, ""}
            /\ r.Content = IF CallSucceeded(contentLog', r.job)
                           THEN contentLog'[r.job].resps[1].content ELSE ""

\* the orchestrator reads Pages for the content-job list when the section
\* pool has wound up: its workers have finished and its result channel is closed
PagesReadAfterWorkers ==
    contentJobs' # contentJobs =>
        /\ WorkersFinished(sectionWorkers)
        /\ sectionResultChanClosed
        /\ rawData' = rawData

\* C22: Pages and Content are written only by the orchestrator, in a step of
\* its collection loop of the stage; no worker step reads or writes the
\* snapshot; so no step has two goroutines at a snapshot map
C22_OnlyOrchestratorTouchesSnapshot ==
    [][ /\ PagesWrittenByCollector
        /\ ContentWrittenByCollector
        /\ WorkerStepLeavesSnapshot
        /\ PagesReadAfterWorkers ]_vars

\* the orchestrator has merged a content result while a content worker is
\* still waiting for its call to return
C22_Witness ==
    /\ pc = "collectContent"
    /\ DOMAIN rawData.Content # {}
    /\ \E w \in WorkerIds : contentWorkers[w].pc = "call"

(***************************************************************************)
(* Merging and the order of arrival                                        *)
(***************************************************************************)
\* the run was not cancelled and both pools are configured with workers
PlainRun == ~cancelled /\ config.MaxSectionWorkers > 0 /\ config.MaxContentWorkers > 0

\* the list-pages responses as a function of the section id, and the
\* content responses as a function of the page id
PagesResponded ==
    LET ok == { j \in SectionJobSet : CallSucceeded(sectionLog, j) }
    IN [sid \in { j.Section.id : j \in ok } |->
          sectionLog[CHOOSE j \in ok : j.Section.id = sid].resps[1].value]
ContentResponded ==
    LET ok == { j \in ContentJobSet : CallSucceeded(contentLog, j) }
    IN [pid \in { j.PageID : j \in ok } |->
          contentLog[CHOOSE j \in ok : j.PageID = pid].resps[1].content]

\* the ids of the page handles held in Pages
PageIDsHeld ==
    UNION { { rawData.Pages[sid][k].id : k \in 1..Len(rawData.Pages[sid]) } :
              sid \in DOMAIN rawData.Pages }

\* C23: in a run without cancellation and with positive worker counts the
\* returned Pages and Content are determined by the responses alone: one
\* call was answered for every section with an id and every page with an
\* id, Pages maps each section whose call succeeded to the list returned and
\* Content each page whose call succeeded to the bytes returned, whatever
\* the interleaving of the workers and the order of arrival of the results
C23_MergeIsOrderIndependent ==
    (pc = "returned" /\ PlainRun) =>
        /\ \A j \in SectionJobSet :
             Len(sectionLog[j].resps) = IF j.Section.id = "" THEN 0 ELSE 1
        /\ \A j \in ContentJobSet : Len(contentLog[j].resps) = 1
        /\ rawData.Pages = PagesResponded
        /\ rawData.Content = ContentResponded
        /\ { j.PageID : j \in ContentJobSet } = PageIDsHeld \ {""}

\* a run of two section workers and two content workers returned the pages
\* of two sections and the content of two pages
C23_Witness ==
    /\ pc = "returned"
    /\ PlainRun
    /\ \A w \in WorkerIds : sectionWorkers[w].pc = "done" /\ contentWorkers[w].pc = "done"
    /\ Cardinality(DOMAIN rawData.Pages) = 2
    /\ Cardinality(DOMAIN rawData.Content) = 2

(***************************************************************************)
(* Room on the result channels                                             *)
(***************************************************************************)
\* a worker of the pool is about to send a result: its call is in flight, or
\* it waits for a job and one is queued
SendPending(workers, jobChan) ==
    \E w \in WorkerIds :
        \/ workers[w].pc = "call"
        \/ workers[w].pc = "recv" /\ jobChan # << >>

\* C24: once a pool is started the results waiting on its result channel
\* never exceed its capacity, the number of dispatched jobs, and whenever a worker is about
\* to send a result the channel has room for it, so no send blocks
C24_SendNeverBlocks ==
    /\ SectionPoolStarted => Len(sectionResultChan) <= ResultChanCap(sectionJobs)
    /\ ContentPoolStarted => Len(contentResultChan) <= ResultChanCap(contentJobs)
    /\ SendPending(sectionWorkers, sectionJobChan) =>
         Len(sectionResultChan) < ResultChanCap(sectionJobs)
    /\ SendPending(contentWorkers, contentJobChan) =>
         Len(contentResultChan) < ResultChanCap(contentJobs)

\* every result of the section pool waits on the channel, the workers have
\* finished and the orchestrator has not collected one result yet
C24_Witness ==
    /\ Len(sectionJobs) = 2
    /\ Len(sectionResultChan) = 2
    /\ sectionReceived = 0
    /\ WorkersFinished(sectionWorkers)

(***************************************************************************)
(* A section job without a section id                                      *)
(***************************************************************************)
\* a section worker pulls, with ctx not cancelled, a job whose section has no
\* id: no call is issued, one result with the "no ID" error is sent for the
\* job, and the worker is still in its receive loop
NoIDPull ==
    ( /\ ~cancelled
      /\ sectionJobChan # << >>
      /\ sectionJobChan' = Tail(sectionJobChan)
      /\ Head(sectionJobChan).Section.id = "" ) =>
        LET job == Head(sectionJobChan)
            last == sectionResultChan'[Len(sectionResultChan')]
        IN /\ \A j \in SectionJobSet :
                /\ sectionLog'[j].calls = sectionLog[j].calls
                /\ sectionLog'[j].resps = sectionLog[j].resps
           /\ sectionLog'[job].calls = 0
           /\ Len(sectionResultChan') = Len(sectionResultChan) + 1
           /\ last.job = job
           /\ last.Error \notin {"", "context canceled"}
           /\ sectionWorkers' = sectionWorkers
           /\ sectionWG' = sectionWG
           /\ \E w \in WorkerIds : sectionWorkers'[w].pc = "recv"

\* C25: a section job whose section has no id yields an error result without
\* any call being issued, and the worker that pulled it stays in its loop,
\* ready to pull the next job
C25_NoIDJobDoesNotStopWorker == [][NoIDPull]_vars

\* the only section worker has reported a section without id and then issued
\* the list-pages call of the job queued behind it
C25_Witness ==
    /\ ~cancelled
    /\ config.MaxSectionWorkers = 1
    /\ \E i, k \in 1..Len(sectionJobs) :
         /\ i < k
         /\ sectionJobs[i].Section.id = ""
         /\ sectionLog[sectionJobs[i]].taken = 1
         /\ sectionLog[sectionJobs[i]].calls = 0
         /\ SectionResultsFor(sectionJobs[i]) = 1
         /\ sectionLog[sectionJobs[k]].calls = 1

(***************************************************************************)
(* Cancellation during the pool stages                                     *)
(***************************************************************************)
\* the result at the head of the channel answers a job that was pulled while
\* ctx was cancelled: the job has an id and no call was issued for it
SectionCancelAtHead ==
    /\ sectionResultChan # << >>
    /\ Head(sectionResultChan).job.Section.id # ""
    /\ sectionLog[Head(sectionResultChan).job].calls = 0
ContentCancelAtHead ==
    /\ contentResultChan # << >>
    /\ contentLog[Head(contentResultChan).job].calls = 0

\* the orchestrator collects a cancellation result: it is counted as an
\* error and the snapshot stays as it is
CancelResultSkipped ==
    /\ (SectionCancelAtHead /\ sectionResultChan' = Tail(sectionResultChan)) =>
          /\ rawData' = rawData
          /\ sectionErrors' = sectionErrors + 1
    /\ (ContentCancelAtHead /\ contentResultChan' = Tail(contentResultChan)) =>
          /\ rawData' = rawData
          /\ contentErrors' = contentErrors + 1

\* the fetch returns, cancelled, after a notebook-list call that succeeded:
\* it returns the snapshot and a nil error
CancelledReturn ==
    ( /\ cancelled' /\ pc # "returned" /\ pc' = "returned"
      /\ calls'.notebooks # << >> /\ ~calls'.notebooks[1].err ) =>
        /\ fetchSnapshot'
        /\ fetchErr' = ""

\* C26: cancellation results are skipped by the collection loops without
\* adding a key to Pages or Content, and a cancelled fetch whose notebook
\* list was fetched still returns the snapshot with a nil error
C26_CancellationIsPerJobFailure == [][CancelResultSkipped /\ CancelledReturn]_vars

\* a cancelled fetch has returned its snapshot after collecting the
\* cancellation result of a content job
C26_Witness ==
    /\ pc = "returned"
    /\ cancelled
    /\ fetchSnapshot /\ fetchErr = ""
    /\ contentErrors > 0
    /\ \E j \in ContentJobSet :
         contentLog[j].taken = 1 /\ contentLog[j].calls = 0 /\ contentLog[j].collected = 1
    /\ DOMAIN rawData.Content \subseteq { j.PageID : j \in { x \in ContentJobSet : contentLog[x].calls = 1 } }

(***************************************************************************)
(* The content-job list                                                    *)
(***************************************************************************)
\* the section stage is over and the content-job list has been derived
ContentJobsBuilt == SectionsCollected /\ pc # "collectSections"

\* the page handles held in Pages, as (section id, position) pairs
PageHandles ==
    UNION { { <<sid, k>> : k \in 1..Len(rawData.Pages[sid]) } : sid \in DOMAIN rawData.Pages }
PageAt(h) == rawData.Pages[h[1]][h[2]]

\* the job carries the id and title of the page handle
JobOf(job, h) == job.PageID = PageAt(h).id /\ job.PageTitle = PageAt(h).title

\* the content-job list holds one job for each handle of H and no other job
OneJobPerHandle(H) ==
    /\ Len(contentJobs) = Cardinality(H)
    /\ \A h \in H :
         Cardinality({ i \in 1..Len(contentJobs) : JobOf(contentJobs[i], h) }) = 1
    /\ \A i \in 1..Len(contentJobs) : \E h \in H : JobOf(contentJobs[i], h)

\* C27 as stated: after the section stage the content-job list holds one job
\* for every page handle of Pages and no other job, each with the id and
\* title of its page
C27_OneJobPerPage == ContentJobsBuilt => OneJobPerHandle(PageHandles)

\* C27: after the section stage the content-job list holds one job for every
\* page handle of Pages that has an id and no other job, each with the id
\* and title of its page; a page handle without an id gets no job
C27_OneJobPerPageWithID ==
    ContentJobsBuilt =>
        /\ OneJobPerHandle({ h \in PageHandles : PageAt(h).id # "" })
        /\ \A i \in 1..Len(contentJobs) : contentJobs[i].PageID # ""

\* Pages holds a page with an id and a page without one, and the content-job
\* list holds the job of the first alone
C27_Witness ==
    /\ ContentJobsBuilt
    /\ \E h \in PageHandles : PageAt(h).id = ""
    /\ \E h \in PageHandles : PageAt(h).id # ""
    /\ Len(contentJobs) = 1

(***************************************************************************)
(* The empty string as a key                                               *)
(***************************************************************************)
\* C28: neither Pages nor Content ever has the empty string as a key
C28_NoEmptyKey ==
    /\ "" \notin DOMAIN rawData.Pages
    /\ "" \notin DOMAIN rawData.Content

\* the orchestrator has collected the result of a section without id and the
\* cancellation result of a section with an id
C28_Witness ==
    /\ SectionsCollected
    /\ \E j \in SectionJobSet : j.Section.id = "" /\ sectionLog[j].collected = 1
    /\ \E j \in SectionJobSet :
         /\ j.Section.id # "" /\ sectionLog[j].calls = 0
         /\ sectionLog[j].taken = 1 /\ sectionLog[j].collected = 1

(***************************************************************************)
(* Jobs are processed once                                                 *)
(***************************************************************************)
\* the job is held by at most one worker, was pulled at most once and is no
\* longer queued once pulled, had at most one call issued and answered, and
\* has at most one result
ProcessedOnce(j, log, workers, jobChan, results) ==
    /\ Cardinality({ w \in WorkerIds : workers[w].job = <<j>> }) <= 1
    /\ log[j].taken <= 1
    /\ log[j].taken + CountSeq(jobChan, LAMBDA x : x = j) <= 1
    /\ log[j].calls <= 1
    /\ Len(log[j].resps) <= log[j].calls
    /\ results <= 1

\* C29: every dispatched job is pulled by at most one worker, at most one
\* remote call is issued for it, and it yields at most one result
C29_JobsProcessedOnce ==
    /\ \A j \in SectionJobSet :
         ProcessedOnce(j, sectionLog, sectionWorkers, sectionJobChan, SectionResultsFor(j))
    /\ \A j \in ContentJobSet :
         ProcessedOnce(j, contentLog, contentWorkers, contentJobChan, ContentResultsFor(j))

\* two content workers hold the two content jobs, each with its call in flight
C29_Witness ==
    /\ Len(contentJobs) = 2
    /\ contentJobChan = << >>
    /\ \A w \in WorkerIds : w <= 2 => contentWorkers[w].pc = "call"
    /\ contentWorkers[1].job # contentWorkers[2].job

(***************************************************************************)
(* Legacy sequential fetch: fetchOneNoteRawData                            *)
(***************************************************************************)
\* rawData as the fetch allocates it
EmptySnapshot ==
    [Notebooks |-> << >>, Sections |-> EmptyMap, Pages |-> EmptyMap, Content |-> EmptyMap]

\* Step 3 of the legacy fetch: for every section with an id of every group
\* the list-pages call is issued; a failed call is skipped, and so is a
\* response without a page collection (the section ids in nilIDs); otherwise
\* rawData.Pages[sectionID] = pages.GetValue()
LegacyPages(sections, pagesOf, nilIDs) ==
    LET secs == UNION { { sections[nb][i] : i \in 1..Len(sections[nb]) } : nb \in DOMAIN sections }
        called == { s.id : s \in { x \in secs : x.id # "" } }
        stored == { sid \in called : ~pagesOf[sid].err /\ sid \notin nilIDs }
    IN [sid \in stored |-> pagesOf[sid].value]

\* Step 4 of the legacy fetch: for every page with an id of every non-empty
\* entry of Pages the content call is issued; a failed call is skipped,
\* otherwise rawData.Content[pageID] = content
LegacyContent(pages, contentOf) ==
    LET called == UNION { { pages[sid][k].id : k \in 1..Len(pages[sid]) } : sid \in DOMAIN pages } \ {""}
    IN [pid \in { p \in called : ~contentOf[p].err } |-> contentOf[pid].content]

\* The legacy fetch as a function of the responses it is given: the
\* notebook-list and section-list responses, the list-pages response per
\* section id and the content response per page id
fetchOneNoteRawData(nbCalls, secCalls, pagesOf, contentOf, nilIDs) ==
    IF MissingUserID
    THEN [snapshot |-> FALSE, data |-> EmptySnapshot,
          err |-> "user ID is required for application authentication flow"]
    ELSE IF nbCalls[1].err
    THEN [snapshot |-> FALSE, data |-> EmptySnapshot, err |-> "failed to fetch notebooks"]
    ELSE IF NoNotebooks(nbCalls[1])
    THEN [snapshot |-> TRUE, data |-> EmptySnapshot, err |-> ""]
    ELSE LET sections == IF secCalls[1].err \/ secCalls[1].isNil
                         THEN EmptyMap
                         ELSE GroupSections(secCalls[1].value)
             pages == LegacyPages(sections, pagesOf, nilIDs)
         IN [snapshot |-> TRUE, err |-> "",
             data |-> [Notebooks |-> nbCalls[1].value,
                       Sections |-> sections,
                       Pages |-> pages,
                       Content |-> LegacyContent(pages, contentOf)]]

\* the responses the concurrent run got, by section id and by page id
PagesOf ==
    LET answered == { j \in SectionJobSet : sectionLog[j].resps # << >> }
    IN [sid \in { j.Section.id : j \in answered } |->
          sectionLog[CHOOSE j \in answered : j.Section.id = sid].resps[1]]
ContentOf ==
    LET answered == { j \in ContentJobSet : contentLog[j].resps # << >> }
    IN [pid \in { j.PageID : j \in answered } |->
          contentLog[CHOOSE j \in answered : j.PageID = pid].resps[1]]

\* the sections whose list-pages response held no page: the response may
\* have carried an empty collection or none
MaybeNilIDs == { sid \in DOMAIN PagesOf : ~PagesOf[sid].err /\ PagesOf[sid].value = << >> }

\* C30: when a concurrent fetch with positive worker counts and no
\* cancellation has returned, the legacy fetch given the same responses
\* returns an error in the same case (the same error), a snapshot in the
\* same case, and a snapshot from which document assembly makes the same
\* sequence of documents
C30_ConcurrentRefinesLegacy ==
    (pc = "returned" /\ PlainRun) =>
        \A nilIDs \in SUBSET MaybeNilIDs :
            LET legacy == fetchOneNoteRawData(calls.notebooks, calls.sections,
                                              PagesOf, ContentOf, nilIDs)
            IN /\ legacy.err = fetchErr
               /\ legacy.snapshot = fetchSnapshot
               /\ fetchSnapshot => Documents(legacy.data) = Documents(rawData)

\* a run of both pools without cancellation has returned a snapshot that
\* makes one document, next to a page whose content call failed
C30_Witness ==
    /\ pc = "returned"
    /\ PlainRun
    /\ Len(Documents(rawData)) = 1
    /\ contentErrors = 1

====
